---- MODULE Spec2Model ----
(***************************************************************************)
(* Vendor folder monitoring.                                               *)
(*                                                                         *)
(*   missing_files_alert.py : check_missing_files and its helpers          *)
(*   vendor_folder_mon.py   : monitor_feeds and its helpers                *)
(*                                                                         *)
(* A datetime is a number of seconds counted from midnight of day 0 (naive *)
(* local time, one-second resolution: every datetime the program handles   *)
(* comes from an integer epoch or from a strptime with a seconds format).  *)
(* A time of day is a number of seconds since midnight.                    *)
(***************************************************************************)
EXTENDS Integers, Sequences, FiniteSets, TLC

VARIABLES
    \* ---- calculate_median_window applied on its own
    times,                  \* the argument list
    median_window,          \* what the call returned (NotCalled before it)
    \* ---- the world check_missing_files runs in
    now,                    \* datetime.now()
    metricsDir,             \* METRICS_DIR: NoDir, or its files in listing order
    feedDir,                \* FEED_DIR: folder name -> NoFolder or its files
    successFile,            \* STATE_FILE_SUCCESS on disk
    failureFile,            \* STATE_FILE_FAILURE on disk
    reportFile,             \* the report file on disk
    \* ---- one run of check_missing_files
    pc,                     \* position of the run
    success_state,
    failure_state,
    all_metrics,
    pending,                \* feeds of grouped_metrics still to be visited
    new_success_state,
    new_failure_state,
    missing_files_report,
    estimated,              \* feeds a window was estimated for in this run
    folder_checked,         \* feeds real_time_folder_check was called for
    runs,                   \* runs started so far
    last,                   \* what the previous completed run saw and saved
    at_start,               \* the two state files as the current run found them
    \* ---- monitor_feeds and the world it runs in
    feed_folder,            \* FEED_FOLDER: folder name -> its files
    metrics_store,          \* METRICS_DIR of the monitor: day -> metrics_<day>.json
    alerts,                 \* the alerts send_alert was called with, in order
    mon_pc                  \* "idle", then "done" or "raised"

winVars == <<times, median_window>>
monVars == <<feed_folder, metrics_store, alerts, mon_pc>>
sideVars == <<winVars, monVars>>
worldVars == <<now, metricsDir, feedDir, successFile, failureFile, reportFile>>
runVars == <<pc, success_state, failure_state, all_metrics, pending,
             new_success_state, new_failure_state, missing_files_report,
             estimated, folder_checked, runs, last, at_start>>
vars == <<winVars, monVars, worldVars, runVars>>

----------------------------------------------------------------------------
(* Configuration                                                           *)

LOOKBACK_DAYS == 7
THRESHOLD_MINS == 10
MinHistory == 5
ROLLING_DAYS == 7

----------------------------------------------------------------------------
(* Dates and times                                                         *)

\* timedelta(minutes=n), in seconds
Minutes(n) == n * 60
Hour == Minutes(60)
DaySeconds == 24 * Hour

\* a time of day written as on a clock
Clock(h, m, s) == h * Hour + Minutes(m) + s

\* datetime.combine(date, time)
combine(date, t) == date * DaySeconds + t
\* datetime.date() / datetime.time() / datetime.hour
DateOf(dt) == dt \div DaySeconds
TimeOf(dt) == dt % DaySeconds
HourOf(dt) == (dt % DaySeconds) \div Hour

----------------------------------------------------------------------------
(* calculate_median_window                                                 *)

NoWindow == <<>>
NotCalled == <<0>>

\* list.sort() on times of day
SortTimes(ts) == SortSeq(ts, LAMBDA a, b : a < b)

\* median_time of calculate_median_window, for a non-empty list
median_time(ts) ==
    LET s == SortTimes(ts)
        n == Len(s)
    IN  IF n % 2 = 0
        THEN \* times[n//2 - 1] + timedelta(minutes = (hi - lo).seconds // 120)
             TimeOf(combine(0, s[n \div 2])
                    + Minutes((s[n \div 2 + 1] - s[n \div 2]) \div 120))
        ELSE s[n \div 2 + 1]

calculate_median_window(ts) ==
    IF ts = <<>>
    THEN NoWindow
    ELSE LET m == median_time(ts)
         IN  << TimeOf(combine(1, m) - Minutes(THRESHOLD_MINS)),
                TimeOf(combine(1, m) + Minutes(THRESHOLD_MINS)) >>

----------------------------------------------------------------------------
(* Sequences                                                               *)

RECURSIVE Flatten(_)
\* the concatenation of a sequence of sequences (list.extend in a loop)
Flatten(ss) == IF ss = <<>> THEN <<>> ELSE Head(ss) \o Flatten(Tail(ss))

Map(f(_), s) == [i \in 1..Len(s) |-> f(s[i])]

\* s[-n:]
LastN(s, n) == IF Len(s) <= n THEN s ELSE SubSeq(s, Len(s) - n + 1, Len(s))

InSeq(x, s) == \E i \in 1..Len(s) : s[i] = x

RECURSIVE SetToSeq(_)
\* the elements of a finite set, in some order
SetToSeq(S) ==
    IF S = {} THEN <<>>
    ELSE LET x == CHOOSE y \in S : TRUE IN <<x>> \o SetToSeq(S \ {x})

\* s without its i-th element
Without(s, i) == SubSeq(s, 1, i - 1) \o SubSeq(s, i + 1, Len(s))

RECURSIVE Listings(_)
\* the orders os.listdir may return the entries of a directory in: every
\* order of them
Listings(entries) ==
    IF entries = <<>> THEN {<<>>}
    ELSE UNION {{<<entries[i]>> \o l : l \in Listings(Without(entries, i))} :
                  i \in 1..Len(entries)}

\* the listings of a directory after a new entry is created in it: the entry
\* may come at any place
Inserted(s, x) ==
    {SubSeq(s, 1, k) \o <<x>> \o SubSeq(s, k + 1, Len(s)) : k \in 0..Len(s)}

RECURSIVE MaxOf(_)
\* max() of a non-empty sequence of numbers
MaxOf(s) ==
    IF Len(s) = 1 THEN s[1]
    ELSE LET m == MaxOf(Tail(s)) IN IF s[1] >= m THEN s[1] ELSE m

----------------------------------------------------------------------------
(* dict: a mapping that keeps insertion order, as a sequence of <<key,     *)
(* value>> items with no key twice                                         *)

EmptyDict == <<>>
DictKeys(d) == {d[i][1] : i \in 1..Len(d)}
DictHas(d, k) == k \in DictKeys(d)
DictGet(d, k) == d[CHOOSE i \in 1..Len(d) : d[i][1] = k][2]
\* d[k] = v
DictSet(d, k, v) ==
    IF DictHas(d, k)
    THEN [i \in 1..Len(d) |-> IF d[i][1] = k THEN <<k, v>> ELSE d[i]]
    ELSE Append(d, <<k, v>>)
\* d1 == d2 (the order of insertion does not count)
DictEq(d1, d2) ==
    /\ DictKeys(d1) = DictKeys(d2)
    /\ \A k \in DictKeys(d1) : DictGet(d1, k) = DictGet(d2, k)

----------------------------------------------------------------------------
(* State files: load_state / save_state                                    *)
(*                                                                         *)
(* A file is [exists, rows]; a csv row is a sequence of cells.  The cells  *)
(* of a state row are folder, regex, count, last_time, status:             *)
(*   count      <<"digits", n>> is the text str(n); <<"junk", 0>> is text  *)
(*              int() rejects                                              *)
(*   last_time  <<yyyymmdd, hhmmss>>, the two digit groups of the format   *)
(*              %Y%m%d-%H%M%S (the date group is the day number)           *)
(*   status     "True" or "False", str() of the boolean                    *)

NoFile == [exists |-> FALSE, rows |-> <<>>]

\* str(data["count"])
StrInt(n) == <<"digits", n>>
\* int(count) succeeds
IsIntText(c) == c[1] = "digits"
IntOf(c) == c[2]

\* data["last_time"].strftime("%Y%m%d-%H%M%S")
strftime(dt) ==
    LET t == TimeOf(dt)
    IN  << DateOf(dt),
           (t \div Hour) * 10000 + ((t % Hour) \div 60) * 100 + (t % 60) >>

\* datetime.strptime(last_time, "%Y%m%d-%H%M%S") succeeds
IsTimeText(c) ==
    /\ c[1] >= 0
    /\ c[2] >= 0
    /\ c[2] \div 10000 < 24
    /\ (c[2] \div 100) % 100 < 60
    /\ c[2] % 100 < 60
strptime(c) ==
    combine(c[1], Clock(c[2] \div 10000, (c[2] \div 100) % 100, c[2] % 100))

\* mutant: the status is written in lower case
StrBool_Lower(b) == IF b THEN "true" ELSE "false"

\* str(data["status"])
StrBool(b) == IF b THEN "True" ELSE "False"

\* the row unpacks into five cells, int(count) and strptime(last_time) succeed
RowReadable(row) ==
    /\ Len(row) = 5
    /\ IsIntText(row[3])
    /\ IsTimeText(row[4])

\* load_state raises (ValueError) instead of returning
load_state_raises(file) ==
    file.exists /\ \E i \in 1..Len(file.rows) : ~RowReadable(file.rows[i])

RECURSIVE LoadRows(_, _)
LoadRows(rows, state) ==
    IF rows = <<>> THEN state
    ELSE LoadRows(Tail(rows),
                  DictSet(state, <<Head(rows)[1], Head(rows)[2]>>,
                          [count |-> IntOf(Head(rows)[3]),
                           last_time |-> strptime(Head(rows)[4]),
                           status |-> (Head(rows)[5] = "True")]))

\* load_state(state_file), when it does not raise
load_state(file) == IF file.exists THEN LoadRows(file.rows, EmptyDict) ELSE EmptyDict

\* the rows save_state writes for a state
StateRows(state) ==
    [i \in 1..Len(state) |->
        << state[i][1][1], state[i][1][2], StrInt(state[i][2].count),
           strftime(state[i][2].last_time), StrBool(state[i][2].status) >>]

\* open(state_file, 'w'): the file exists and is empty from here on
OpenForWrite(file) == [exists |-> TRUE, rows |-> <<>>]
\* the rows reach the file when the with-block closes it
save_state(state) == [exists |-> TRUE, rows |-> StateRows(state)]

----------------------------------------------------------------------------
(* Metrics snapshots: parse_metrics                                        *)
(*                                                                         *)
(* METRICS_DIR is [exists, files]; a snapshot file feed.metrics.<date>.info*)
(* is [date, rows]; a row is [form, capture_time, folder, file_description]*)
(* , the description being the sequence of its '|'-separated entries, each *)
(* [form, regex, earliest, latest].  The form of a row is                  *)
(*   "ok"           nine columns or more, a capture time that parses       *)
(*   "short"        fewer than nine '^'-separated columns                  *)
(*   "bad_time"     a capture time strptime rejects                        *)
(*   "undescribed"  the text None as file description                      *)
(* and the form of an entry is                                             *)
(*   "ok"           regex#count,median_size,median_time,earliest,latest    *)
(*   "none"         the same with the text None in one of the five fields  *)
(*   "bad_regex"    a pattern re.compile rejects                           *)
(*   "junk"         text that does not split, or a field that does not     *)
(*                  convert                                                *)

NoDir == [exists |-> FALSE, files |-> <<>>]

\* row[8] raises IndexError, or strptime(row[0], ...) raises ValueError
RowRaises(row) == row.form \in {"short", "bad_time"}

\* parse_metrics raises instead of returning: the two statements are outside
\* the try block, and come before the test on the hour
parse_metrics_raises(file) == \E i \in 1..Len(file.rows) : RowRaises(file.rows[i])

\* the entry is appended to metrics; any other is skipped, by the test on
\* None, by validate_regex or by the except clause
EntryKept(entry) == entry.form = "ok"

\* the records one row yields (one per entry of its file description kept)
RowMetrics(row) ==
    LET kept == SelectSeq(row.file_description, EntryKept)
    IN  [i \in 1..Len(kept) |->
            [folder |-> row.folder,
             regex |-> kept[i].regex,
             capture_time |-> row.capture_time,
             earliest |-> kept[i].earliest,
             latest |-> kept[i].latest]]

\* parse_metrics(file_path, state), current_hour being datetime.now().hour,
\* when it does not raise: rows captured at a later hour of the day than the
\* current one, and rows without a description, are skipped
parse_metrics(file, current_hour) ==
    Flatten([i \in 1..Len(file.rows) |->
        IF HourOf(file.rows[i].capture_time) > current_hour
           \/ file.rows[i].form = "undescribed"
        THEN <<>>
        ELSE RowMetrics(file.rows[i])])

\* cutoff_date = datetime.now() - timedelta(days=LOOKBACK_DAYS)
cutoff_date(t) == t - LOOKBACK_DAYS * DaySeconds

\* file_date >= cutoff_date, file_date being midnight of the date in the name
InLookback(file, t) == combine(file.date, 0) >= cutoff_date(t)

\* mutant: a missing directory is taken for an empty one
listdir_raises_Never(dir) == FALSE

\* os.listdir(METRICS_DIR) raises (FileNotFoundError)
listdir_raises(dir) == ~dir.exists

\* a snapshot of the lookback period makes parse_metrics raise
ReadAllMetrics_raises(dir, t) ==
    \E i \in 1..Len(dir.files) :
        InLookback(dir.files[i], t) /\ parse_metrics_raises(dir.files[i])

\* all_metrics after the loop over os.listdir(METRICS_DIR)
ReadAllMetrics(dir, t) ==
    Flatten([i \in 1..Len(dir.files) |->
        IF InLookback(dir.files[i], t)
        THEN parse_metrics(dir.files[i], HourOf(t))
        ELSE <<>>])

KeyOf(metric) == <<metric.folder, metric.regex>>

RECURSIVE Distinct(_, _)
Distinct(s, seen) ==
    IF s = <<>> THEN <<>>
    ELSE IF Head(s) \in seen THEN Distinct(Tail(s), seen)
         ELSE <<Head(s)>> \o Distinct(Tail(s), seen \cup {Head(s)})

\* mutant: the records are not grouped, the loop visits a feed once for
\* each of its records
GroupKeys_PerRecord(metrics) == [i \in 1..Len(metrics) |-> KeyOf(metrics[i])]

\* the keys of grouped_metrics, in the order the loop visits them
GroupKeys(metrics) == Distinct([i \in 1..Len(metrics) |-> KeyOf(metrics[i])], {})
\* grouped_metrics[key]
GroupOf(metrics, key) == SelectSeq(metrics, LAMBDA m : KeyOf(m) = key)

----------------------------------------------------------------------------
(* real_time_folder_check                                                  *)
(*                                                                         *)
(* FEED_DIR maps a folder name to [exists, files]; a file of a folder is   *)
(* [isfile, mdate, matches]: whether it is a regular file, the date of its *)
(* modification time, and the patterns that match its name.                *)

NoFolder == [exists |-> FALSE, files |-> {}]

\* mutant: a matching file counts whatever the day it was modified
real_time_folder_check_AnyDay(dir, folder, regex, t) ==
    /\ dir[folder].exists
    /\ \E f \in dir[folder].files : f.isfile /\ regex \in f.matches

real_time_folder_check(dir, folder, regex, t) ==
    /\ dir[folder].exists
    /\ \E f \in dir[folder].files :
          /\ f.isfile
          /\ f.mdate = DateOf(t)
          /\ regex \in f.matches

----------------------------------------------------------------------------
(* The body of the loop of check_missing_files over grouped_metrics        *)

\* mutant: the maximum is taken over the earliest arrivals
latest_time_OfEarliest(records) == MaxOf([i \in 1..Len(records) |-> records[i].earliest])

\* latest_time = max(record["latest"] for record in records ...)
latest_time(records) == MaxOf([i \in 1..Len(records) |-> records[i].latest])

\* the feed is carried forward without validation
Unchanged(prior, key, records) ==
    /\ DictHas(prior, key)
    /\ latest_time(records) = DictGet(prior, key).last_time

historical_records(records, t) ==
    SelectSeq(records, LAMBDA r : DateOf(r.capture_time) < DateOf(t))
today_records(records, t) ==
    SelectSeq(records, LAMBDA r : DateOf(r.capture_time) = DateOf(t))

\* times = [record["earliest"].time() for record in historical_records]
HistoricalTimes(records, t) ==
    LET h == historical_records(records, t)
    IN  [i \in 1..Len(h) |-> TimeOf(h[i].earliest)]

\* mutant: any history at all is enough
EnoughHistory_Any(records, t) == Len(HistoricalTimes(records, t)) >= 1

\* len(times) >= 5
EnoughHistory(records, t) == Len(HistoricalTimes(records, t)) >= MinHistory

\* median_window = calculate_median_window(times[-5:])
WindowOf(records, t) ==
    calculate_median_window(LastN(HistoricalTimes(records, t), MinHistory))

\* lower_bound <= x <= upper_bound, on times of day
InWindow(x, w) == w[1] <= x /\ x <= w[2]

within_window(records, t) ==
    LET today == today_records(records, t)
        w == WindowOf(records, t)
    IN  \E i \in 1..Len(today) : InWindow(TimeOf(today[i].earliest), w)

\* what one pass of the loop does for a feed:
\*   "carried"       latest arrival unchanged, prior success entry kept
\*   "insufficient"  fewer than 5 historical records
\*   "healthy"       a record of today lies in the window
\*   "found"         none does, the folder check found a file of today
\*   "missing"       none does, and the folder check found nothing
Outcome(prior, dir, key, records, t) ==
    IF Unchanged(prior, key, records) THEN "carried"
    ELSE IF ~EnoughHistory(records, t) THEN "insufficient"
    ELSE IF within_window(records, t) THEN "healthy"
    ELSE IF real_time_folder_check(dir, key[1], key[2], t) THEN "found"
    ELSE "missing"

\* the line appended to missing_files_report
ReportLine(key, w) == [folder |-> key[1], regex |-> key[2], lower |-> w[1], upper |-> w[2]]

----------------------------------------------------------------------------
(* Bounds and inputs                                                       *)

MaxRuns == 2        \* runs of check_missing_files in one day
MaxToday == 2       \* snapshot rows captured today
MaxHist == 6        \* historical records of a feed
MaxLen == 5         \* length of a list given to calculate_median_window

Today == LOOKBACK_DAYS + 3
NowTime == Clock(12, 0, 0)

KA == <<"fa", "ra">>
KB == <<"fb", "rb">>
Keys == {KA, KB}
Folders == {"fa", "fb"}

\* arrival times of day in the history of feed KA, and of today's snapshots
HistTimes == {Clock(0, 5, 0), Clock(9, 30, 0)}
TodayTimes == {Clock(9, 15, 0), Clock(9, 25, 0)}
\* the history of feed KB, when it has one
Scenario == << Clock(9, 0, 0), Clock(9, 5, 0), Clock(9, 10, 0),
               Clock(9, 15, 0), Clock(9, 20, 0) >>
\* a snapshot is captured CaptureLag after the earliest arrival it records,
\* and the latest arrival it records is LatestLag after the earliest
CaptureLag == Minutes(30)
LatestLag == Minutes(5)

Entry(key, day, t) ==
    [form |-> "ok",
     regex |-> key[2],
     earliest |-> combine(day, t),
     latest |-> combine(day, t) + LatestLag]
Row(key, day, t) ==
    [form |-> "ok",
     capture_time |-> combine(day, t) + CaptureLag,
     folder |-> key[1],
     file_description |-> <<Entry(key, day, t)>>]

\* the collector captures a feed up to three times a day, an hour apart
\* (hours after the first capture)
CaptureSlots == <<0, 1, 2>>
PerDay == Len(CaptureSlots)

\* the records of a history (oldest first) are counted back from the most
\* recent one, j = 1, captured at the last slot of yesterday; PerDay records
\* share a day
DayBack(j) == (j - 1) \div PerDay + 1
SlotOf(j) == CaptureSlots[PerDay - ((j - 1) % PerDay)]
HistRow(key, h, j) ==
    [Row(key, Today - DayBack(j), h[Len(h) - j + 1])
        EXCEPT !.capture_time = @ + SlotOf(j) * Hour]

\* the rows of the snapshot of d days ago: at each capture, one row per feed
\* whose history reaches that far back
RowsOfDay(hA, hB, d) ==
    Flatten([s \in 1..PerDay |->
        LET j == (d - 1) * PerDay + (PerDay - s + 1)
        IN  (IF j <= Len(hA) THEN <<HistRow(KA, hA, j)>> ELSE <<>>)
            \o (IF j <= Len(hB) THEN <<HistRow(KB, hB, j)>> ELSE <<>>)])

\* the snapshot files of the past days, oldest first
BuildDir(hA, hB) ==
    LET len == IF Len(hA) >= Len(hB) THEN Len(hA) ELSE Len(hB)
        n == IF len = 0 THEN 0 ELSE DayBack(len)
    IN  [exists |-> TRUE,
         files |-> [i \in 1..n |->
                      [date |-> Today - (n - i + 1),
                       rows |-> RowsOfDay(hA, hB, n - i + 1)]]]

\* the histories of feed KA: 4 to MaxHist records, the feed arriving at the
\* same time of day at every capture, or at one time for the first three
\* captures and at another from then on
Repeat(x, k) == [i \in 1..k |-> x]
HistoriesA ==
    {Repeat(x, n) : x \in HistTimes, n \in (MinHistory - 1)..MaxHist}
    \cup {Repeat(x, PerDay) \o Repeat(y, MaxHist - PerDay) : x \in HistTimes, y \in HistTimes}
HistoriesB == {<<>>, Scenario}

\* a folder holding one file, regular, modified on `day`, matched by `regex`
FolderWith(day, regex) ==
    [exists |-> TRUE,
     files |-> {[isfile |-> TRUE, mdate |-> day, matches |-> {regex}]}]
FolderStates(key) ==
    {NoFolder, FolderWith(Today, key[2]), FolderWith(Today - 1, key[2])}

\* state files with a row load_state cannot read: too few cells, a count
\* that is no integer, a timestamp that does not parse
CorruptFiles ==
    { [exists |-> TRUE, rows |-> <<r>>] :
        r \in { <<"fa", "ra", StrInt(1)>>,
                <<"fa", "ra", <<"junk", 0>>, strftime(combine(Today, 0)), "True">>,
                <<"fa", "ra", StrInt(1), <<Today, 250000>>, "True">> } }

\* a directory with the same files, listed in any order
Listed(dir) == {[exists |-> TRUE, files |-> l] : l \in Listings(dir.files)}

\* the records of feed KA an earlier run of the day read from the
\* directory dir, in the order that run's os.listdir gave
EarlierRecords(dir) == GroupOf(ReadAllMetrics(dir, combine(Today, NowTime)), KA)

\* the failure state file that run left, having reported feed KA at a time
\* its folder held no file of today
ReportedEarlier(dir) ==
    save_state(DictSet(EmptyDict, KA,
                       [count |-> 0,
                        last_time |-> latest_time(EarlierRecords(dir)),
                        status |-> FALSE]))
\* and the report that run wrote: the window of times[-5:] in its listing order
ReportOfEarlier(dir) ==
    [exists |-> TRUE,
     rows |-> <<ReportLine(KA, WindowOf(EarlierRecords(dir), combine(Today, NowTime)))>>]

\* the history of feed KA in that case: five arrivals at 09:30
Steady == Repeat(Clock(9, 30, 0), MinHistory)
\* or three arrivals at 00:05 followed by three at 09:30, whose last five
\* depend on the listing order
Shifted == Repeat(Clock(0, 5, 0), PerDay) \o Repeat(Clock(9, 30, 0), MaxHist - PerDay)
EarlierHistories == {Steady, Shifted}

----------------------------------------------------------------------------
(* vendor_folder_mon.py                                                    *)
(*                                                                         *)
(* A folder of FEED_FOLDER is the sequence of its files, each [size,       *)
(* mtime].  A metrics file metrics_<day>.json is [exists, metrics], the    *)
(* metrics being a sequence of feeds [folder_name, file_count, total_size, *)
(* file_sizes, file_arrival_times].  Medians and percentiles are kept as   *)
(* exact integers: a median times 2, a decile times 10.                    *)

RECURSIVE Sum(_)
Sum(s) == IF s = <<>> THEN 0 ELSE Head(s) + Sum(Tail(s))

RECURSIVE MinOf(_)
MinOf(s) ==
    IF Len(s) = 1 THEN s[1]
    ELSE LET m == MinOf(Tail(s)) IN IF s[1] <= m THEN s[1] ELSE m

SortNumbers(s) == SortSeq(s, LAMBDA a, b : a < b)

\* os.listdir(FEED_FOLDER): the folders, in any order
FolderListings == Listings(<<"fa", "fb">>)

\* is_file_modified_today(file_mod_time)
is_file_modified_today(mtime, t) == DateOf(mtime) = DateOf(t)

\* get_feed_metrics(feed_folder): one feed per folder, of its files of today,
\* in the order os.listdir(feed_folder) returned the folders
get_feed_metrics(ff, listing, t) ==
    [i \in 1..Len(listing) |->
        LET files == SelectSeq(ff[listing[i]],
                               LAMBDA f : is_file_modified_today(f.mtime, t))
        IN  [folder_name |-> listing[i],
             file_count |-> Len(files),
             total_size |-> Sum([j \in 1..Len(files) |-> files[j].size]),
             file_sizes |-> [j \in 1..Len(files) |-> files[j].size],
             file_arrival_times |-> [j \in 1..Len(files) |-> files[j].mtime]]]

NoJson == [exists |-> FALSE, metrics |-> <<>>]

\* save_metrics_to_file(metrics, metrics_dir, date)
save_metrics_to_file(store, metrics, day) ==
    [store EXCEPT ![day] = [exists |-> TRUE, metrics |-> metrics]]

\* load_metrics_from_file(metrics_dir, date)
load_metrics_from_file(store, day) ==
    IF day \in DOMAIN store /\ store[day].exists THEN store[day].metrics ELSE <<>>

\* load_past_metrics(metrics_dir, days): today first, then back in time
load_past_metrics(store, days, t) ==
    Flatten([i \in 1..days |-> load_metrics_from_file(store, DateOf(t) - (i - 1))])

\* statistics.median(data), times 2
median_x2(data) ==
    LET s == SortNumbers(data)
        n == Len(s)
    IN  IF n % 2 = 1 THEN 2 * s[n \div 2 + 1] ELSE s[n \div 2] + s[n \div 2 + 1]

\* statistics.quantiles(data, n=10)[i - 1], times 10 (the default, exclusive,
\* method; data of two points or more)
quantile_x10(data, i) ==
    LET s == SortNumbers(data)
        ld == Len(s)
        m == ld + 1
        j0 == (i * m) \div 10
        j == IF j0 < 1 THEN 1 ELSE IF j0 > ld - 1 THEN ld - 1 ELSE j0
        delta == i * m - j * 10
    IN  s[j] * (10 - delta) + s[j + 1] * delta

\* statistics.quantiles raises StatisticsError: fewer than two data points
quantiles_raises(data) == Len(data) < 2

FeedsOf(metrics, folder) == SelectSeq(metrics, LAMBDA f : f.folder_name = folder)
\* folder_metrics[folder_name] of calculate_median_metrics
FileCounts(metrics, folder) ==
    LET fs == FeedsOf(metrics, folder) IN [i \in 1..Len(fs) |-> fs[i].file_count]
FileSizes(metrics, folder) ==
    LET fs == FeedsOf(metrics, folder) IN Flatten([i \in 1..Len(fs) |-> fs[i].file_sizes])
TotalSizes(metrics, folder) ==
    LET fs == FeedsOf(metrics, folder) IN [i \in 1..Len(fs) |-> fs[i].total_size]

\* calculate_median_metrics raises: a folder has sizes, and just one
calculate_median_metrics_raises(metrics) ==
    \E i \in 1..Len(metrics) :
        /\ FileSizes(metrics, metrics[i].folder_name) # <<>>
        /\ quantiles_raises(FileSizes(metrics, metrics[i].folder_name))

\* median_metrics[folder_name], when calculate_median_metrics does not raise
calculate_median_metrics(metrics, folder) ==
    LET counts == FileCounts(metrics, folder)
        sizes == FileSizes(metrics, folder)
    IN  [median_file_count_x2 |-> IF counts # <<>> THEN median_x2(counts) ELSE 0,
         p10_size_x10 |-> IF sizes # <<>> THEN quantile_x10(sizes, 1) ELSE 0,
         p90_size_x10 |-> IF sizes # <<>> THEN quantile_x10(sizes, 9) ELSE 0]

\* calculate_dynamic_time_window(metrics): <<earliest, latest>>, or <<>>
calculate_dynamic_time_window(metrics) ==
    LET all == Flatten([i \in 1..Len(metrics) |-> metrics[i].file_arrival_times])
    IN  IF all = <<>> THEN <<>> ELSE <<MinOf(all), MaxOf(all)>>

Alert(kind, folder) == [kind |-> kind, folder |-> folder]

\* the alerts one pass of the loop of monitor_feeds sends for a feed of today
FeedAlerts(feed, past, t) ==
    LET folder == feed.folder_name
        med == calculate_median_metrics(past, folder)
        win == calculate_dynamic_time_window(past)
        sizes == feed.file_sizes
    IN  (IF \E i \in 1..Len(sizes) : sizes[i] = 0
         THEN <<Alert("zero_byte", folder)>> ELSE <<>>)
        \o (IF 2 * feed.file_count < med.median_file_count_x2
            THEN <<Alert("fewer_files", folder)>> ELSE <<>>)
        \o (IF \E i \in 1..Len(sizes) :
                  10 * sizes[i] < med.p10_size_x10 \/ 10 * sizes[i] > med.p90_size_x10
            THEN <<Alert("size_range", folder)>> ELSE <<>>)
        \o (IF win # <<>> /\ win[1] # 0 /\ win[2] # 0 /\ ~(win[1] <= t /\ t <= win[2])
            THEN <<Alert("time_window", folder)>> ELSE <<>>)
        \o (IF 2 * feed.total_size < median_x2(TotalSizes(past, folder))
               /\ feed.total_size # 0
            THEN <<Alert("growth", folder)>> ELSE <<>>)

\* bounds and inputs of the monitor
MaxDays == 3        \* past days with a metrics file
MaxFiles == 2       \* files delivered today, over all folders

HistSizes == {100, 150}
TodaySizes == {0, 120, 5000}
ArrivalTime == Clock(9, 0, 0)

File(day, size) == [size |-> size, mtime |-> combine(day, ArrivalTime)]

\* the metrics file of a past day on which folder fa received one file of
\* the given size, and folder fb none
PastMetrics(day, size, listing) ==
    get_feed_metrics([f \in Folders |-> IF f = "fa" THEN <<File(day, size)>> ELSE <<>>],
                     listing, combine(day, NowTime))

StoreDays == (Today - ROLLING_DAYS)..Today
\* the store after the days of a history, oldest first, up to yesterday; a
\* day of the history is the size of the file received and the order the
\* folders were listed in
BuildStore(h) ==
    [d \in StoreDays |->
        IF d < Today /\ Today - d <= Len(h)
        THEN [exists |-> TRUE,
              metrics |-> PastMetrics(d, h[Len(h) - (Today - d) + 1][1],
                                      h[Len(h) - (Today - d) + 1][2])]
        ELSE NoJson]

MonIdle ==
    /\ feed_folder = [f \in Folders |-> <<>>]
    /\ metrics_store = [d \in StoreDays |-> NoJson]
    /\ alerts = <<>>
    /\ mon_pc = "idle"

----------------------------------------------------------------------------
(* check_missing_files, step by step                                       *)

NoLast == [done |-> FALSE, metrics |-> <<>>, report |-> <<>>,
           success |-> NoFile, failure |-> NoFile]

Stopped == {"idle", "done", "raised", "aborted"}
Running == {"loaded", "evaluating", "writing_success", "saved_success",
            "writing_failure", "saved_state", "writing_report"}

WindowIdle == times = <<>> /\ median_window = NotCalled

RunIdle ==
    /\ pc = "idle"
    /\ success_state = EmptyDict
    /\ failure_state = EmptyDict
    /\ all_metrics = <<>>
    /\ pending = <<>>
    /\ new_success_state = EmptyDict
    /\ new_failure_state = EmptyDict
    /\ missing_files_report = <<>>
    /\ estimated = {}
    /\ folder_checked = {}
    /\ runs = 0
    /\ last = NoLast
    /\ at_start = <<NoFile, NoFile>>

\* the day starts with no state file, with one that was damaged, or with the
\* files an earlier run left; with no metrics directory, or with the
\* snapshots of the past days, which os.listdir returns in any order
Init ==
    /\ WindowIdle
    /\ MonIdle
    /\ RunIdle
    /\ now = combine(Today, NowTime)
    /\ \E fa \in FolderStates(KA) :
          feedDir = [f \in Folders |-> IF f = "fa" THEN fa ELSE NoFolder]
    /\ \/ /\ metricsDir = NoDir
          /\ successFile \in {NoFile} \cup CorruptFiles
          /\ failureFile = NoFile
          /\ reportFile = NoFile
       \/ /\ metricsDir \in Listed(BuildDir(Steady, Scenario))
          /\ successFile \in CorruptFiles
          /\ failureFile = NoFile
          /\ reportFile = NoFile
       \/ /\ \E hA \in HistoriesA, hB \in HistoriesB : metricsDir \in Listed(BuildDir(hA, hB))
          /\ successFile = NoFile
          /\ failureFile = NoFile
          /\ reportFile = NoFile
       \/ /\ \E hA \in EarlierHistories :
                /\ metricsDir \in Listed(BuildDir(hA, <<>>))
                /\ \E earlier \in Listed(BuildDir(hA, <<>>)) :
                      /\ failureFile = ReportedEarlier(earlier)
                      /\ reportFile = ReportOfEarlier(earlier)
          /\ successFile = save_state(EmptyDict)

\* the two load_state calls at the start of a run; either may raise
StartRun ==
    /\ pc \in Stopped
    /\ runs < MaxRuns
    /\ runs' = runs + 1
    /\ last' = IF pc = "done"
               THEN [done |-> TRUE, metrics |-> all_metrics,
                     report |-> missing_files_report,
                     success |-> successFile, failure |-> failureFile]
               ELSE NoLast
    /\ at_start' = <<successFile, failureFile>>
    /\ IF load_state_raises(successFile) \/ load_state_raises(failureFile)
       THEN /\ pc' = "raised"
            /\ success_state' = EmptyDict
            /\ failure_state' = EmptyDict
       ELSE /\ pc' = "loaded"
            /\ success_state' = load_state(successFile)
            /\ failure_state' = load_state(failureFile)
    /\ all_metrics' = <<>>
    /\ pending' = <<>>
    /\ new_success_state' = EmptyDict
    /\ new_failure_state' = EmptyDict
    /\ missing_files_report' = <<>>
    /\ estimated' = {}
    /\ folder_checked' = {}
    /\ UNCHANGED <<sideVars, worldVars>>

\* os.listdir(METRICS_DIR) raises when the directory is missing, and
\* parse_metrics on a row it cannot read; otherwise the snapshots of the
\* lookback period are parsed and grouped
ReadMetrics ==
    /\ pc = "loaded"
    /\ IF listdir_raises(metricsDir) \/ ReadAllMetrics_raises(metricsDir, now)
       THEN /\ pc' = "raised"
            /\ UNCHANGED <<all_metrics, pending>>
       ELSE /\ pc' = "evaluating"
            /\ all_metrics' = ReadAllMetrics(metricsDir, now)
            /\ pending' = GroupKeys(ReadAllMetrics(metricsDir, now))
    /\ UNCHANGED <<sideVars, worldVars, success_state, failure_state,
                   new_success_state, new_failure_state, missing_files_report,
                   estimated, folder_checked, runs, last, at_start>>

\* one pass of the loop over grouped_metrics
EvaluateFeed ==
    /\ pc = "evaluating"
    /\ pending # <<>>
    /\ LET key == Head(pending)
           records == GroupOf(all_metrics, key)
           out == Outcome(success_state, feedDir, key, records, now)
           w == WindowOf(records, now)
       IN  /\ new_success_state' =
                CASE out = "carried" ->
                        DictSet(new_success_state, key, DictGet(success_state, key))
                  [] out = "healthy" ->
                        DictSet(new_success_state, key,
                                [count |-> Len(today_records(records, now)),
                                 last_time |-> latest_time(records),
                                 status |-> TRUE])
                  [] OTHER -> new_success_state
           /\ new_failure_state' =
                IF out = "missing"
                THEN DictSet(new_failure_state, key,
                             [count |-> 0,
                              last_time |-> latest_time(records),
                              status |-> FALSE])
                ELSE new_failure_state
           /\ missing_files_report' =
                IF out = "missing"
                THEN Append(missing_files_report, ReportLine(key, w))
                ELSE missing_files_report
           /\ estimated' =
                IF out \in {"healthy", "found", "missing"}
                THEN estimated \cup {<<key, w>>}
                ELSE estimated
           /\ folder_checked' =
                IF out \in {"found", "missing"}
                THEN folder_checked \cup {key}
                ELSE folder_checked
    /\ pending' = Tail(pending)
    /\ UNCHANGED <<sideVars, worldVars, pc, success_state, failure_state,
                   all_metrics, runs, last, at_start>>

\* save_state(new_success_state, STATE_FILE_SUCCESS): open(..., 'w')
OpenSuccess ==
    /\ pc = "evaluating"
    /\ pending = <<>>
    /\ successFile' = OpenForWrite(successFile)
    /\ pc' = "writing_success"
    /\ UNCHANGED <<sideVars, now, metricsDir, feedDir, failureFile, reportFile,
                   success_state, failure_state, all_metrics, pending,
                   new_success_state, new_failure_state, missing_files_report,
                   estimated, folder_checked, runs, last, at_start>>

\* ... the rows are written and the file is closed
CloseSuccess ==
    /\ pc = "writing_success"
    /\ successFile' = save_state(new_success_state)
    /\ pc' = "saved_success"
    /\ UNCHANGED <<sideVars, now, metricsDir, feedDir, failureFile, reportFile,
                   success_state, failure_state, all_metrics, pending,
                   new_success_state, new_failure_state, missing_files_report,
                   estimated, folder_checked, runs, last, at_start>>

\* save_state(new_failure_state, STATE_FILE_FAILURE): open(..., 'w')
OpenFailure ==
    /\ pc = "saved_success"
    /\ failureFile' = OpenForWrite(failureFile)
    /\ pc' = "writing_failure"
    /\ UNCHANGED <<sideVars, now, metricsDir, feedDir, successFile, reportFile,
                   success_state, failure_state, all_metrics, pending,
                   new_success_state, new_failure_state, missing_files_report,
                   estimated, folder_checked, runs, last, at_start>>

CloseFailure ==
    /\ pc = "writing_failure"
    /\ failureFile' = save_state(new_failure_state)
    /\ pc' = "saved_state"
    /\ UNCHANGED <<sideVars, now, metricsDir, feedDir, successFile, reportFile,
                   success_state, failure_state, all_metrics, pending,
                   new_success_state, new_failure_state, missing_files_report,
                   estimated, folder_checked, runs, last, at_start>>

\* the report: open(report_file_name, "w") creates or empties the file
OpenReport ==
    /\ pc = "saved_state"
    /\ reportFile' = OpenForWrite(reportFile)
    /\ pc' = "writing_report"
    /\ UNCHANGED <<sideVars, now, metricsDir, feedDir, successFile, failureFile,
                   success_state, failure_state, all_metrics, pending,
                   new_success_state, new_failure_state, missing_files_report,
                   estimated, folder_checked, runs, last, at_start>>

\* ... one line per entry of missing_files_report reaches the file when the
\* with-block closes it
WriteReport ==
    /\ pc = "writing_report"
    /\ reportFile' = [exists |-> TRUE, rows |-> missing_files_report]
    /\ pc' = "done"
    /\ UNCHANGED <<sideVars, now, metricsDir, feedDir, successFile, failureFile,
                   success_state, failure_state, all_metrics, pending,
                   new_success_state, new_failure_state, missing_files_report,
                   estimated, folder_checked, runs, last, at_start>>

\* the run is killed from outside, wherever it is
Abort ==
    /\ pc \in Running
    /\ pc' = "aborted"
    /\ UNCHANGED <<sideVars, worldVars, success_state, failure_state, all_metrics,
                   pending, new_success_state, new_failure_state,
                   missing_files_report, estimated, folder_checked, runs, last, at_start>>

\* today's rows of the metrics directory
TodayRows(dir) ==
    Flatten([i \in 1..Len(dir.files) |->
        IF dir.files[i].date = Today THEN dir.files[i].rows ELSE <<>>])

\* between two runs the collector appends a row to today's snapshot, which
\* it creates if need be (the new file may come at any place of the listing)
AddRow(dir, row) ==
    IF \E i \in 1..Len(dir.files) : dir.files[i].date = Today
    THEN {[dir EXCEPT !.files =
            [i \in 1..Len(dir.files) |->
                IF dir.files[i].date = Today
                THEN [dir.files[i] EXCEPT !.rows = Append(@, row)]
                ELSE dir.files[i]]]}
    ELSE {[dir EXCEPT !.files = l] :
             l \in Inserted(dir.files, [date |-> Today, rows |-> <<row>>])}

SnapshotCaptured ==
    /\ pc \in Stopped
    /\ runs < MaxRuns
    /\ metricsDir.exists
    /\ Len(TodayRows(metricsDir)) < MaxToday
    /\ \E key \in Keys, t \in TodayTimes :
          /\ combine(Today, t) + CaptureLag <= now
          /\ metricsDir' \in AddRow(metricsDir, Row(key, Today, t))
    /\ UNCHANGED <<sideVars, now, feedDir, successFile, failureFile, reportFile, runVars>>

\* between two runs the metrics directory is taken away
MetricsDirRemoved ==
    /\ pc \in Stopped
    /\ 0 < runs /\ runs < MaxRuns
    /\ metricsDir.exists
    /\ metricsDir' = NoDir
    /\ UNCHANGED <<sideVars, now, feedDir, successFile, failureFile, reportFile, runVars>>

Next ==
    \/ StartRun
    \/ ReadMetrics
    \/ EvaluateFeed
    \/ OpenSuccess
    \/ CloseSuccess
    \/ OpenFailure
    \/ CloseFailure
    \/ OpenReport
    \/ WriteReport
    \/ Abort
    \/ SnapshotCaptured
    \/ MetricsDirRemoved

Spec == Init /\ [][Next]_vars

----------------------------------------------------------------------------
(* calculate_median_window on its own: any list of up to MaxLen times      *)

WinTimes == {Clock(0, 5, 0), Clock(9, 0, 0), Clock(9, 5, 30), Clock(23, 52, 0)}
WindowInputs == UNION {[1..n -> WinTimes] : n \in 0..MaxLen}

InitWindow ==
    /\ times \in WindowInputs
    /\ median_window = NotCalled
    /\ MonIdle
    /\ RunIdle
    /\ now = combine(Today, NowTime)
    /\ metricsDir = NoDir
    /\ feedDir = [f \in Folders |-> NoFolder]
    /\ successFile = NoFile
    /\ failureFile = NoFile
    /\ reportFile = NoFile

\* the call sorts the caller's list in place (times.sort())
CallWindow ==
    /\ median_window = NotCalled
    /\ median_window' = calculate_median_window(times)
    /\ times' = SortTimes(times)
    /\ UNCHANGED <<monVars, worldVars, runVars>>

NextWindow == CallWindow

SpecWindow == InitWindow /\ [][NextWindow]_vars

----------------------------------------------------------------------------
(* monitor_feeds on its own                                                *)

InitMonitor ==
    /\ WindowIdle
    /\ RunIdle
    /\ now = combine(Today, NowTime)
    /\ metricsDir = NoDir
    /\ feedDir = [f \in Folders |-> NoFolder]
    /\ successFile = NoFile
    /\ failureFile = NoFile
    /\ reportFile = NoFile
    /\ feed_folder = [f \in Folders |-> <<>>]
    /\ \E h \in UNION {[1..n -> HistSizes \X FolderListings] : n \in 0..MaxDays} :
          metrics_store = BuildStore(h)
    /\ alerts = <<>>
    /\ mon_pc = "idle"

\* a file lands in a folder before the monitor runs (at any place of the
\* listing of the folder)
FileArrives ==
    /\ mon_pc = "idle"
    /\ Len(feed_folder["fa"]) + Len(feed_folder["fb"]) < MaxFiles
    /\ \E f \in Folders, size \in TodaySizes :
          \E l \in Inserted(feed_folder[f], File(Today, size)) :
             feed_folder' = [feed_folder EXCEPT ![f] = l]
    /\ UNCHANGED <<winVars, worldVars, runVars, metrics_store, alerts, mon_pc>>

\* monitor_feeds()
MonitorFeeds ==
    /\ mon_pc = "idle"
    /\ \E listing \in FolderListings :
       LET today_metrics == get_feed_metrics(feed_folder, listing, now)
           saved == save_metrics_to_file(metrics_store, today_metrics, DateOf(now))
           past_metrics == load_past_metrics(saved, ROLLING_DAYS, now)
       IN  /\ metrics_store' = saved
           /\ IF calculate_median_metrics_raises(past_metrics)
              THEN /\ mon_pc' = "raised"
                   /\ alerts' = <<>>
              ELSE /\ mon_pc' = "done"
                   /\ alerts' = Flatten([i \in 1..Len(today_metrics) |->
                                   FeedAlerts(today_metrics[i], past_metrics, now)])
    /\ UNCHANGED <<winVars, worldVars, runVars, feed_folder>>

NextMonitor == FileArrives \/ MonitorFeeds

SpecMonitor == InitMonitor /\ [][NextMonitor]_vars

----------------------------------------------------------------------------
(* check_missing_files up to the end of its loop, over metrics directories *)
(* whose snapshots carry any date, are listed in any order, or hold rows   *)
(* of any form                                                             *)

MaxRows == 3        \* rows of a snapshot holding malformed rows
MaxDated == 3       \* snapshots of a directory of dated snapshots
MaxListed == 6      \* historical records of a feed, one snapshot each

\* the times of day a run may start at
NowTimes == {Clock(0, 0, 0), Clock(0, 0, 1), NowTime, Clock(23, 59, 59)}
\* the dates a snapshot may carry: from the day before the lookback period
\* starts to the day after today
DatedDays == (Today - LOOKBACK_DAYS - 1)..(Today + 1)
\* the arrival recorded by a dated snapshot (captured in the first hour of
\* the day, so that a run at any hour keeps the row)
EarlyTime == Clock(0, 5, 0)

\* a directory holding one snapshot for each day of a set, each with one
\* row of feed KA
DatedDir(days) ==
    [exists |-> TRUE,
     files |-> [i \in 1..Cardinality(days) |->
                  [date |-> SetToSeq(days)[i],
                   rows |-> <<Row(KA, SetToSeq(days)[i], EarlyTime)>>]]]

\* a directory holding the history of feed KA (oldest first, up to
\* yesterday) at one capture a day, a snapshot for each
DailyDir(h) ==
    [exists |-> TRUE,
     files |-> [i \in 1..Len(h) |->
                  [date |-> Today - (Len(h) - i + 1),
                   rows |-> <<Row(KA, Today - (Len(h) - i + 1), h[i])>>]]]

\* the histories of feed KA: MinHistory to MaxListed records, the feed
\* arriving at one time of day for the first k days and at another from
\* then on
ListedHistories ==
    UNION {{Repeat(Clock(0, 5, 0), k) \o Repeat(Clock(9, 30, 0), n - k) : k \in 0..n} :
              n \in MinHistory..MaxListed}

\* the rows a snapshot may hold: rows in order, rows parse_metrics cannot
\* read, a row without description, and rows with an entry that is skipped
\* before one that is kept
RowVariants ==
    LET a == Row(KA, Today - 1, Clock(9, 30, 0))
        b == Row(KB, Today - 1, Scenario[1])
    IN  {a, b}
        \cup {[a EXCEPT !.form = f] : f \in {"short", "bad_time", "undescribed"}}
        \cup {[b EXCEPT !.file_description =
                    <<[Entry(KA, Today - 1, Scenario[1]) EXCEPT !.form = f]>> \o @] :
                 f \in {"none", "bad_regex", "junk"}}

InitSnapshots ==
    /\ WindowIdle
    /\ MonIdle
    /\ RunIdle
    /\ feedDir = [f \in Folders |-> NoFolder]
    /\ successFile = NoFile
    /\ failureFile = NoFile
    /\ reportFile = NoFile
    /\ \/ /\ \E t \in NowTimes : now = combine(Today, t)
          /\ \E days \in {d \in SUBSET DatedDays : Cardinality(d) <= MaxDated} :
                metricsDir \in Listed(DatedDir(days))
       \/ /\ now = combine(Today, NowTime)
          /\ \E hA \in ListedHistories : metricsDir \in Listed(DailyDir(hA))
       \/ /\ now = combine(Today, NowTime)
          /\ \E rows \in UNION {[1..n -> RowVariants] : n \in 1..MaxRows} :
                metricsDir = [exists |-> TRUE,
                              files |-> <<[date |-> Today - 1, rows |-> rows]>>]

NextSnapshots == StartRun \/ ReadMetrics \/ EvaluateFeed

SpecSnapshots == InitSnapshots /\ [][NextSnapshots]_vars

----------------------------------------------------------------------------
(* Properties                                                              *)

\* the loop over grouped_metrics is over
Evaluated ==
    \/ pc = "evaluating" /\ pending = <<>>
    \/ pc \in {"writing_success", "saved_success", "writing_failure",
               "saved_state", "writing_report", "done"}

\* the records of a feed among those the run read
FeedRecords(key) == {all_metrics[i] : i \in {j \in 1..Len(all_metrics) :
                        all_metrics[j].folder = key[1] /\ all_metrics[j].regex = key[2]}}
HistoryOfFeed(key) == {m \in FeedRecords(key) : m.capture_time < combine(Today, 0)}
TodayOfFeed(key) == {m \in FeedRecords(key) : m.capture_time >= combine(Today, 0)}

HasLine(report, key) ==
    \E i \in 1..Len(report) : report[i].folder = key[1] /\ report[i].regex = key[2]
HasRow(file, key) ==
    \E i \in 1..Len(file.rows) : file.rows[i][1] = key[1] /\ file.rows[i][2] = key[2]

\* the entry of a feed in a state file, <<>> when it has none
EntryIn(file, key) ==
    IF DictHas(load_state(file), key) THEN <<DictGet(load_state(file), key)>> ELSE <<>>

\* a file of today matching the feed's pattern is in the feed's folder
FileOfTodayIn(key) ==
    /\ feedDir[key[1]].exists
    /\ \E f \in feedDir[key[1]].files :
          f.isfile /\ f.mdate = Today /\ key[2] \in f.matches

\* C1: when a run completes on the records the previous completed run saw,
\* it reports no feed of those records and leaves each feed's entry in the
\* saved state as the previous run saved it (stated for the runs whose
\* windows do not reach across midnight).
C1_SecondRunIsSilent ==
    (/\ pc = "done" /\ last.done /\ last.metrics = all_metrics
     /\ \A e \in estimated : e[2][1] <= e[2][2])
    => \A key \in Keys :
          FeedRecords(key) # {}
          => /\ ~HasLine(missing_files_report, key)
             /\ EntryIn(successFile, key) = EntryIn(last.success, key)
             /\ EntryIn(failureFile, key) = EntryIn(last.failure, key)

\* C2: the window calculate_median_window returns for a non-empty list
\* brackets the median and is 2 * THRESHOLD_MINS minutes wide.
C2_WindowBracketsMedian ==
    (median_window # NotCalled /\ times # <<>>)
    => /\ median_window[1] <= median_time(times)
       /\ median_time(times) <= median_window[2]
       /\ median_window[2] - median_window[1] = 2 * THRESHOLD_MINS * 60

\* C3: a feed with fewer than 5 historical records gets no window, no
\* report line and no failure entry, in memory or on disk.
C3_InsufficientHistorySkipped ==
    (pc \in Running \cup {"done"} /\ pc # "loaded")
    => \A key \in Keys :
          Cardinality(HistoryOfFeed(key)) < 5
          => /\ \A e \in estimated : e[1] # key
             /\ ~HasLine(missing_files_report, key)
             /\ ~DictHas(new_failure_state, key)
             /\ (pc \in {"saved_state", "writing_report", "done"}
                 => ~HasRow(failureFile, key))
             /\ (pc = "done" => ~HasLine(reportFile.rows, key))

\* a run finished with a feed short of history that had a record of today
\* and nothing in its folder
C3_Witness ==
    /\ pc = "done"
    /\ \E key \in Keys :
          /\ Cardinality(HistoryOfFeed(key)) = 4
          /\ TodayOfFeed(key) # {}
          /\ ~FileOfTodayIn(key)

\* C4: once the loop is over, a feed has a report line exactly when a window
\* was estimated for it, no record of today arrived inside that window and
\* no file of today matching its pattern is in its folder (a missing folder
\* included); the line carries that window.
C4_AnomalyIffWindowMissedAndNoFile ==
    Evaluated
    => \A key \in Keys :
          HasLine(missing_files_report, key)
          <=> \E e \in estimated :
                 /\ e[1] = key
                 /\ \A m \in TodayOfFeed(key) :
                       ~(e[2][1] <= m.earliest % (24 * 3600)
                         /\ m.earliest % (24 * 3600) <= e[2][2])
                 /\ ~FileOfTodayIn(key)

\* a run finished having reported a feed whose folder does not exist
C4_Witness ==
    /\ pc = "done"
    /\ HasLine(reportFile.rows, KA)
    /\ ~feedDir["fa"].exists
    /\ TodayOfFeed(KA) # {}

\* C5: a feed evaluated with a record of today inside its window has no
\* report line, was not looked up in its folder, and its success entry, in
\* memory and once saved on disk, has status True and the latest arrival of
\* all its records as last_time.
C5_HealthyPath ==
    Evaluated
    => \A e \in estimated :
          (\E m \in TodayOfFeed(e[1]) :
               e[2][1] <= m.earliest % (24 * 3600) /\ m.earliest % (24 * 3600) <= e[2][2])
          => /\ ~HasLine(missing_files_report, e[1])
             /\ e[1] \notin folder_checked
             /\ DictHas(new_success_state, e[1])
             /\ DictGet(new_success_state, e[1]).status = TRUE
             /\ \A m \in FeedRecords(e[1]) :
                   m.latest <= DictGet(new_success_state, e[1]).last_time
             /\ \E m \in FeedRecords(e[1]) :
                   m.latest = DictGet(new_success_state, e[1]).last_time
             /\ (pc \in {"saved_success", "writing_failure", "saved_state",
                        "writing_report", "done"}
                 => EntryIn(successFile, e[1]) = <<DictGet(new_success_state, e[1])>>)

\* history 09:00 .. 09:20, window 09:00 - 09:20, arrival of today at 09:15
C5_Witness ==
    /\ pc = "done"
    /\ <<KB, <<Clock(9, 0, 0), Clock(9, 20, 0)>>>> \in estimated
    /\ \E m \in TodayOfFeed(KB) : m.earliest = combine(Today, Clock(9, 15, 0))
    /\ EntryIn(successFile, KB) # <<>>

\* C5 as first stated, with its example: with the history 09:00, 09:05,
\* 09:10, 09:15, 09:20 the window is 08:50 - 09:30, so that a feed with that
\* history and an arrival of today at 09:25 is healthy.
C5_HealthyPathWithExample ==
    /\ C5_HealthyPath
    /\ Evaluated
       => \A e \in estimated :
             ({m.earliest % (24 * 3600) : m \in HistoryOfFeed(e[1])}
                  = {Scenario[i] : i \in 1..Len(Scenario)}
              /\ \E m \in TodayOfFeed(e[1]) : m.earliest % (24 * 3600) = Clock(9, 25, 0))
             => /\ e[2] = <<Clock(8, 50, 0), Clock(9, 30, 0)>>
                /\ ~HasLine(missing_files_report, e[1])
                /\ DictHas(new_success_state, e[1])

\* C8: wherever a run is killed, the two state files together hold either
\* the state the run found or the state the run computed.
C8_AtomicCommit ==
    pc = "aborted"
    => \/ /\ DictEq(load_state(successFile), load_state(at_start[1]))
          /\ DictEq(load_state(failureFile), load_state(at_start[2]))
       \/ /\ DictEq(load_state(successFile), new_success_state)
          /\ DictEq(load_state(failureFile), new_failure_state)

\* C9: while the metrics directory is missing no step writes a state file
\* or the report, and a run that reaches the directory listing goes no
\* further.
C9_SourceUnavailable ==
    [][~metricsDir.exists
       => /\ successFile' = successFile
          /\ failureFile' = failureFile
          /\ reportFile' = reportFile
          /\ (pc = "loaded" => pc' \in {"raised", "aborted"})]_vars

\* a run failed on the missing directory with a state saved by an earlier run
C9_Witness ==
    /\ pc = "raised"
    /\ ~metricsDir.exists
    /\ ~load_state_raises(successFile)
    /\ ~load_state_raises(failureFile)
    /\ successFile.rows # <<>>

\* C10: a run that finds an unreadable row in a state file is not ended by
\* it.
C10_StateCorruptRecovered ==
    (metricsDir.exists /\ (load_state_raises(successFile) \/ load_state_raises(failureFile)))
    => pc # "raised"

\* the sizes of the folder's files of the past days in the store, today's
\* file left out
HistoricalSizes(folder) ==
    FileSizes(Flatten([i \in 1..(ROLLING_DAYS - 1) |->
                  load_metrics_from_file(metrics_store, Today - i)]), folder)
SizesOfToday(folder) ==
    {feed_folder[folder][i].size : i \in 1..Len(feed_folder[folder])}

\* C6: once monitor_feeds has run, every folder holding a 0-byte file of
\* today has had its 0-byte alert.
C6_ZeroByteAlwaysAlerts ==
    mon_pc # "idle"
    => \A f \in Folders :
          0 \in SizesOfToday(f) => InSeq(Alert("zero_byte", f), alerts)

\* C7: when monitor_feeds completes, every folder with a file of today whose
\* size lies outside the 10th - 90th percentile range of the folder's
\* historical sizes (today's left out) has had its size-range alert.
C7_SizeRangeFromHistory ==
    mon_pc = "done"
    => \A f \in Folders :
          (/\ Len(HistoricalSizes(f)) >= 2
           /\ \E size \in SizesOfToday(f) :
                 \/ 10 * size < quantile_x10(HistoricalSizes(f), 1)
                 \/ 10 * size > quantile_x10(HistoricalSizes(f), 9))
          => InSeq(Alert("size_range", f), alerts)

\* the records the run read, as a set
AllRecords == {all_metrics[i] : i \in 1..Len(all_metrics)}

\* the run is past the reading of the metrics directory without having
\* failed on its state files
PastReading ==
    /\ pc \notin {"idle", "loaded"}
    /\ ~load_state_raises(at_start[1])
    /\ ~load_state_raises(at_start[2])

\* the date of the snapshot lies in the closed interval of days
\* [today - LOOKBACK_DAYS, today]
DatedInLookback(file) ==
    /\ DateOf(now) - LOOKBACK_DAYS <= file.date
    /\ file.date <= DateOf(now)

\* C11: a run that reads an existing metrics directory is not ended by a
\* malformed row, and has a record for every entry in order of every row in
\* order (captured no later than the current hour) of every snapshot it
\* reads, whatever the other rows and entries of the snapshot are.
C11_MalformedRowsDropped ==
    (PastReading /\ metricsDir.exists)
    => /\ pc # "raised"
       /\ \A i \in 1..Len(metricsDir.files) :
             InLookback(metricsDir.files[i], now)
             => \A j \in 1..Len(metricsDir.files[i].rows) :
                   LET row == metricsDir.files[i].rows[j]
                   IN  (row.form = "ok" /\ HourOf(row.capture_time) <= HourOf(now))
                       => \A k \in 1..Len(row.file_description) :
                             row.file_description[k].form = "ok"
                             => \E m \in AllRecords :
                                   /\ m.folder = row.folder
                                   /\ m.regex = row.file_description[k].regex
                                   /\ m.capture_time = row.capture_time
                                   /\ m.earliest = row.file_description[k].earliest
                                   /\ m.latest = row.file_description[k].latest

\* C12: the success state file, once saved, loads back into the mapping the
\* run computed, and so does the failure state file: same keys, and for
\* each key the same count, last_time and status.
C12_StateRoundTrip ==
    /\ pc \in {"saved_success", "writing_failure", "saved_state",
               "writing_report", "done"}
       => /\ ~load_state_raises(successFile)
          /\ DictEq(load_state(successFile), new_success_state)
    /\ pc \in {"saved_state", "writing_report", "done"}
       => /\ ~load_state_raises(failureFile)
          /\ DictEq(load_state(failureFile), new_failure_state)

\* a second run of the day completed, having saved an entry carried over
\* from the first run (status True) and a failure entry (status False)
C12_Witness ==
    /\ pc = "done"
    /\ success_state # EmptyDict
    /\ \E key \in DictKeys(new_success_state) :
          /\ DictGet(new_success_state, key).status = TRUE
          /\ DictGet(new_success_state, key).count > 0
    /\ \E key \in DictKeys(new_failure_state) :
          DictGet(new_failure_state, key).status = FALSE
    /\ successFile.rows # <<>>
    /\ failureFile.rows # <<>>

\* C13: when a run completes, every feed that had an entry in the state
\* files the run found still has one in the state files it leaves, and every
\* feed a window was estimated for has one.
C13_EntriesNeverRemoved ==
    pc = "done"
    => /\ \A key \in Keys :
             (HasRow(at_start[1], key) \/ HasRow(at_start[2], key))
             => (HasRow(successFile, key) \/ HasRow(failureFile, key))
       /\ \A e \in estimated :
             HasRow(successFile, e[1]) \/ HasRow(failureFile, e[1])

\* C14: the report of a run that completes with no finding is not empty (it
\* holds a line saying so).
C14_CleanRunHasSentinel ==
    (pc = "done" /\ missing_files_report = <<>>)
    => (reportFile.exists /\ reportFile.rows # <<>>)

\* the records a snapshot yields at the current hour, as a set
RecordsOfFile(file) ==
    {parse_metrics(file, HourOf(now))[i] :
        i \in 1..Len(parse_metrics(file, HourOf(now)))}

\* C15: once a run has read the metrics directory, the records of a
\* snapshot are among those read exactly when the date of the snapshot lies
\* in [today - LOOKBACK_DAYS, today].
C15_LookbackInclusion ==
    (PastReading /\ metricsDir.exists /\ pc # "raised")
    => \A i \in 1..Len(metricsDir.files) :
          RecordsOfFile(metricsDir.files[i]) # {}
          => (RecordsOfFile(metricsDir.files[i]) \subseteq AllRecords
              <=> DatedInLookback(metricsDir.files[i]))

\* the n records of the feed captured last among its historical records
MostRecent(key, n) ==
    {m \in HistoryOfFeed(key) :
        Cardinality({o \in HistoryOfFeed(key) : o.capture_time > m.capture_time}) < n}

\* the arrival times of day of a set of records, in some order
TimesOfRecords(S) == [i \in 1..Cardinality(S) |-> SetToSeq(S)[i].earliest % (24 * 3600)]

\* C16: the window estimated for a feed is the window of the 5 historical
\* records of the feed captured last, whatever the order the snapshots are
\* listed in.
C16_WindowFromMostRecent ==
    \A e \in estimated :
        e[2] = calculate_median_window(TimesOfRecords(MostRecent(e[1], 5)))

\* the feeds of the rows of a state file, and of the lines of a report
KeysOfRows(rows) == {<<rows[i][1], rows[i][2]>> : i \in 1..Len(rows)}
KeysOfLines(lines) == {<<lines[i].folder, lines[i].regex>> : i \in 1..Len(lines)}
LinesOf(lines, key) ==
    {i \in 1..Len(lines) : lines[i].folder = key[1] /\ lines[i].regex = key[2]}

\* C17: when a run completes, the feeds of the failure state file are the
\* feeds of the report, no feed has two lines in the report, every entry of
\* the failure state file has status False and count 0, and no feed is in
\* both state files.
C17_FailureStateMatchesReport ==
    pc = "done"
    => /\ KeysOfRows(failureFile.rows) = KeysOfLines(reportFile.rows)
       /\ \A key \in KeysOfLines(reportFile.rows) :
             Cardinality(LinesOf(reportFile.rows, key)) = 1
       /\ \A i \in 1..Len(failureFile.rows) :
             /\ failureFile.rows[i][5] = "False"
             /\ failureFile.rows[i][3] = <<"digits", 0>>
       /\ KeysOfRows(failureFile.rows) \cap KeysOfRows(successFile.rows) = {}

\* a run completed with one feed reported and saved as failed, and another
\* saved as healthy
C17_Witness ==
    /\ pc = "done"
    /\ HasLine(reportFile.rows, KA)
    /\ HasRow(failureFile, KA)
    /\ HasRow(successFile, KB)

====
